---- MODULE Spec2Model ----
(***************************************************************************)
(* Model of the Cookidoo API client (src/cookidoo_api/cookidoo.py): the    *)
(* session state of a Cookidoo instance, the token grant routine shared by *)
(* login and refresh_token, and the domain operations, each of which       *)
(* issues one HTTP request and classifies the response.                    *)
(*                                                                         *)
(* Strings that the code transforms are sequences of character codes, so   *)
(* that lower/capitalize/format/int are modelled by what they do.          *)
(* A call takes two steps: it is dispatched (the request leaves with the   *)
(* headers of that moment) and later the transport answers and the rest of *)
(* the coroutine runs.                                                     *)
(***************************************************************************)
EXTENDS Integers, Sequences, FiniteSets, TLC

VARIABLES _cfg, _token_headers, _api_headers, _auth_data, __expires_in,
          __dict__, aliased, now, inflight, last

vars == <<_cfg, _token_headers, _api_headers, _auth_data, __expires_in,
          __dict__, aliased, now, inflight, last>>

\* The wall clock runs from 0 to MaxTime.
MaxInFlight == 2
MaxTime == 2

\* Strings assigned to attributes have up to MaxStringLen characters.
MaxStringLen == 3

\* Lists of cookies have up to MaxCookies cookies.
MaxCookies == 2

(***************************************************************************)
(* Strings                                                                 *)
(***************************************************************************)
s_empty == <<>>
s_AT == <<65, 84>>
s_AU == <<65, 85>>
s_RT == <<82, 84>>
s_RU == <<82, 85>>
s_bearer == <<98, 101, 97, 114, 101, 114>>
s_MAC == <<77, 65, 67>>
s_2 == <<50>>
s_x == <<120>>
s_denied == <<100, 101, 110, 105, 101, 100>>
s_json == <<106, 115, 111, 110>>
s_form == <<102, 111, 114, 109>>
s_email == <<101, 64>>
s_password == <<112, 119>>
s_client_id == <<99, 105, 100>>

ToLower(c) == IF c \in 65..90 THEN c + 32 ELSE c
ToUpper(c) == IF c \in 97..122 THEN c - 32 ELSE c

\* str.lower()
lower(s) == [i \in 1..Len(s) |-> ToLower(s[i])]

\* str.capitalize(): first character upper-cased, the rest lower-cased
capitalize(s) == [i \in 1..Len(s) |-> IF i = 1 THEN ToUpper(s[i]) ELSE ToLower(s[i])]

(***************************************************************************)
(* Python values.  A decoded JSON value is a tagged record; a dict is a    *)
(* function from keys to values.                                           *)
(***************************************************************************)
JStr(s) == [t |-> "str", v |-> s]
JNum(n) == [t |-> "num", v |-> n]
JBool(b) == [t |-> "bool", v |-> b]
JNull == [t |-> "null", v |-> 0]
JObj(d) == [t |-> "obj", v |-> d]
JArr(s) == [t |-> "arr", v |-> s]

\* None as the value of an attribute or as a return value
None == [tag |-> "None"]

\* Outcome of evaluating a Python expression: a value or a raised exception
Ok(x) == [ok |-> TRUE, v |-> x]
Raise(e) == [ok |-> FALSE, exc |-> e]

\* dict restricted to a set of keys / a dict without one key / a dict with one more key
Restrict(d, keys) == [k \in (DOMAIN d) \cap keys |-> d[k]]
Without(d, key) == [k \in (DOMAIN d) \ {key} |-> d[k]]
With(d, key, val) == [k \in (DOMAIN d) \cup {key} |-> IF k = key THEN val ELSE d[k]]

\* as Subscript, with the empty list for a key the dict lacks: j.get(key, [])
Subscript_Get(j, key) ==
    IF j.t = "obj"
    THEN IF key \in DOMAIN j.v THEN Ok(j.v[key]) ELSE Ok(JArr(<<>>))
    ELSE Raise("TypeError")

\* j[key] for a str key
Subscript(j, key) ==
    IF j.t = "obj"
    THEN IF key \in DOMAIN j.v THEN Ok(j.v[key]) ELSE Raise("KeyError")
    ELSE Raise("TypeError")

\* j.items(): only a dict has the method
Items(j) == IF j.t = "obj" THEN Ok(j.v) ELSE Raise("AttributeError")

\* bool(j)
Truthy(j) ==
    CASE j.t = "null" -> FALSE
      [] j.t = "bool" -> j.v
      [] j.t = "num" -> j.v # 0
      [] j.t = "str" -> Len(j.v) > 0
      [] j.t = "arr" -> Len(j.v) > 0
      [] j.t = "obj" -> DOMAIN j.v # {}

\* the decimal value of a digit string, most significant digit first
RECURSIVE Digits(_)
Digits(s) == IF Len(s) = 0 THEN 0 ELSE 10 * Digits(SubSeq(s, 1, Len(s) - 1)) + (s[Len(s)] - 48)

IsDigits(s) == Len(s) > 0 /\ \A i \in 1..Len(s) : s[i] \in 48..57

\* int(x) for a decoded JSON value x
int(j) ==
    CASE j.t = "num" -> Ok(j.v)
      [] j.t = "bool" -> Ok(IF j.v THEN 1 ELSE 0)
      [] j.t = "str" ->
            IF IsDigits(j.v) THEN Ok(Digits(j.v))
            ELSE IF Len(j.v) > 1 /\ j.v[1] = 45 /\ IsDigits(Tail(j.v)) THEN Ok(0 - Digits(Tail(j.v)))
            ELSE Raise("ValueError")
      [] OTHER -> Raise("TypeError")

(***************************************************************************)
(* Declarations of cookidoo_api.const and cookidoo_api.types               *)
(***************************************************************************)
CookidooAuthResponse == {"access_token", "refresh_token", "token_type", "expires_in"}
CookidooUserInfo == {"username", "description", "picture"}
CookidooSubscription == {"active", "expires", "status"}

DEFAULT_TOKEN_HEADERS == [ACCEPT |-> s_json, CONTENT_TYPE |-> s_form]
DEFAULT_API_HEADERS == [ACCEPT |-> s_json]
DEFAULT_COOKIDOO_CONFIG == [email |-> s_email, password |-> s_password,
                            localization |-> [country_code |-> "ch", language |-> "de-CH"]]
COOKIDOO_CLIENT_ID == s_client_id

\* AUTHORIZATION_HEADER.format(type=..., access_token=...): "{type} {access_token}"
AUTHORIZATION_HEADER(type, access_token) == type \o <<32>> \o access_token

HTTP_OK == 200
HTTP_BAD_REQUEST == 400
HTTP_UNAUTHORIZED == 401

(***************************************************************************)
(* Transport.  A response is what one HTTP request produces: a failure     *)
(* while sending, or a status with a body whose reading may still fail.    *)
(*   fail       "none", or the exception the transport raises while        *)
(*              sending ("timeout_send", "client_send") or on the first    *)
(*              read of the body ("timeout_read", "client_read")           *)
(*   json_ctype the Content-Type is a JSON type                            *)
(*   decodable  the body bytes decode in the response's charset            *)
(*   body       Invalid (text that is not JSON), Empty, or the JSON value  *)
(*              the text denotes                                           *)
(***************************************************************************)
Invalid == [t |-> "invalid", v |-> 0]
Empty == [t |-> "empty", v |-> 0]
EmptyText == [t |-> "text", v |-> 0]

Resp(status, body) ==
    [fail |-> "none", status |-> status, json_ctype |-> TRUE, decodable |-> TRUE, body |-> body]

SendFailures == {"timeout_send", "client_send"}

\* await r.text(); cached: the body was read before
text(r, cached) ==
    IF ~cached /\ r.fail = "timeout_read" THEN Raise("TimeoutError")
    ELSE IF ~cached /\ r.fail = "client_read" THEN Raise("ClientError")
    ELSE IF ~r.decodable THEN Raise("UnicodeDecodeError")
    ELSE Ok(r.body)

\* await r.json(): read, check the content type, empty body is None, decode, loads
json(r, cached) ==
    IF ~cached /\ r.fail = "timeout_read" THEN Raise("TimeoutError")
    ELSE IF ~cached /\ r.fail = "client_read" THEN Raise("ClientError")
    ELSE IF ~r.json_ctype THEN Raise("ContentTypeError")
    ELSE IF r.body.t = "empty" THEN Ok(JNull)
    ELSE IF ~r.decodable THEN Raise("UnicodeDecodeError")
    ELSE IF r.body.t = "invalid" THEN Raise("JSONDecodeError")
    ELSE Ok(r.body)

\* r.raise_for_status(): ClientResponseError unless r.ok, and r.ok is 400 > status
raise_for_status(r) == IF r.status >= 400 THEN Raise("ClientResponseError") ELSE Ok(None)

\* the subclasses of aiohttp.ClientError that occur
ClientErrors == {"ClientError", "ContentTypeError", "ClientResponseError"}

\* as OuterExcept, without the except TimeoutError clause
OuterExcept_NoTimeout(exc) == IF exc \in ClientErrors THEN "RequestError" ELSE exc

\* the outer handlers of every operation: except TimeoutError / except ClientError;
\* any other exception leaves the operation as it is
OuterExcept(exc) ==
    IF exc = "TimeoutError" \/ exc \in ClientErrors THEN "RequestError" ELSE exc

\* a record of _LOGGER.debug: what was logged and the response text it carries
LogRecord(msg, status, txt) == [msg |-> msg, status |-> status, text |-> txt]

(***************************************************************************)
(* Session state of a Cookidoo instance, passed to the routines as         *)
(* [auth_data, api_headers, expires]                                       *)
(***************************************************************************)
Unset == [set |-> FALSE, at |-> 0]

\* aliased: the dict that _auth_data refers to is one the caller holds too
Session == [auth_data |-> _auth_data, api_headers |-> _api_headers, expires |-> __expires_in,
            aliased |-> aliased]

RECURSIVE DecimalDigits(_)
DecimalDigits(n) == IF n < 10 THEN <<48 + n>> ELSE DecimalDigits(n \div 10) \o <<48 + (n % 10)>>

\* str(x), as str.format applies it to a field value
str(j) ==
    CASE j.t = "str" -> j.v
      [] j.t = "num" -> IF j.v < 0 THEN <<45>> \o DecimalDigits(0 - j.v) ELSE DecimalDigits(j.v)
      [] j.t = "null" -> <<78, 111, 110, 101>>
      [] j.t = "bool" -> IF j.v THEN <<84, 114, 117, 101>> ELSE <<70, 97, 108, 115, 101>>

Done(kind, value, log, S) == [kind |-> kind, value |-> value, log |-> log, S |-> S]

Max(a, b) == IF a >= b THEN a ELSE b

\* expires_in (getter) read when the clock shows t: the attribute does not
\* exist before the setter has run
expires_in_getter(S, t) ==
    IF ~S.expires.set THEN Raise("AttributeError") ELSE Ok(Max(0, S.expires.at - t))

\* as expires_in_setter, storing the duration instead of the instant it ends
expires_in_setter_Relative(S, expires_in, t) ==
    LET n == int(expires_in)
    IN  IF n.ok
        THEN [exc |-> "none", S |-> [S EXCEPT !.expires = [set |-> TRUE, at |-> n.v]]]
        ELSE [exc |-> n.exc, S |-> S]

\* expires_in.setter
expires_in_setter(S, expires_in, t) ==
    LET n == int(expires_in)
    IN  IF n.ok
        THEN [exc |-> "none", S |-> [S EXCEPT !.expires = [set |-> TRUE, at |-> t + n.v]]]
        ELSE [exc |-> n.exc, S |-> S]

\* as auth_data_setter, formatting the token type as the server sent it
auth_data_setter_RawType(S, auth_data, t) ==
    IF "token_type" \notin DOMAIN auth_data THEN [exc |-> "KeyError", S |-> S]
    ELSE IF auth_data["token_type"].t # "str" THEN [exc |-> "AttributeError", S |-> S]
    ELSE IF "access_token" \notin DOMAIN auth_data THEN [exc |-> "KeyError", S |-> S]
    ELSE LET header == AUTHORIZATION_HEADER(auth_data["token_type"].v,
                                            str(auth_data["access_token"]))
             S1 == [S EXCEPT !.api_headers = With(@, "AUTHORIZATION", header),
                             !.auth_data = auth_data, !.aliased = TRUE]
         IN  IF "expires_in" \notin DOMAIN auth_data THEN [exc |-> "KeyError", S |-> S1]
             ELSE expires_in_setter(S1, auth_data["expires_in"], t)

\* auth_data.setter
auth_data_setter(S, auth_data, t) ==
    IF "token_type" \notin DOMAIN auth_data THEN [exc |-> "KeyError", S |-> S]
    ELSE IF auth_data["token_type"].t # "str" THEN [exc |-> "AttributeError", S |-> S]
    ELSE IF "access_token" \notin DOMAIN auth_data THEN [exc |-> "KeyError", S |-> S]
    ELSE LET header == AUTHORIZATION_HEADER(capitalize(lower(auth_data["token_type"].v)),
                                            str(auth_data["access_token"]))
             S1 == [S EXCEPT !.api_headers = With(@, "AUTHORIZATION", header),
                             !.auth_data = auth_data, !.aliased = TRUE]
         IN  IF "expires_in" \notin DOMAIN auth_data THEN [exc |-> "KeyError", S |-> S1]
             ELSE expires_in_setter(S1, auth_data["expires_in"], t)

\* as Unauthorized, forgetting the held AuthResponse that was refused
Unauthorized_Forgets(r, log, S) ==
    LET errmsg == json(r, TRUE)
        S0 == [S EXCEPT !.auth_data = None]
    IN  IF ~errmsg.ok
        THEN Done("AuthError", None, log \o <<LogRecord("cannot parse", r.status, EmptyText)>>, S0)
        ELSE LET description == Subscript(errmsg.v, "error_description")
             IN  IF description.ok
                 THEN Done("AuthError", None,
                           log \o <<LogRecord("error_description", r.status, description.v)>>, S0)
                 ELSE Done(description.exc, None, log, S0)

\* the branch every operation takes on HTTP 401 (the body was read for the log line)
Unauthorized(r, log, S) ==
    LET errmsg == json(r, TRUE)
    IN  IF ~errmsg.ok
        THEN Done("AuthError", None, log \o <<LogRecord("cannot parse", r.status, EmptyText)>>, S)
        ELSE LET description == Subscript(errmsg.v, "error_description")
             IN  IF description.ok
                 THEN Done("AuthError", None,
                           log \o <<LogRecord("error_description", r.status, description.v)>>, S)
                 ELSE Done(description.exc, None, log, S)

\* Cookidoo._request_access_token, from the response on; t is the clock when it runs
_request_access_token(r, S, t) ==
    IF r.fail \in SendFailures
    THEN Done("RequestError", None, <<LogRecord("exception", 0, EmptyText)>>, S)
    ELSE
    LET logged == IF r.status # HTTP_OK THEN text(r, FALSE) ELSE Ok(EmptyText)
    IN  IF ~logged.ok
        THEN Done(OuterExcept(logged.exc), None,
                  IF OuterExcept(logged.exc) = "RequestError"
                  THEN <<LogRecord("exception", 0, EmptyText)>> ELSE <<>>, S)
        ELSE
        LET log == <<LogRecord("response", r.status, logged.v)>>
        IN  IF r.status = HTTP_UNAUTHORIZED THEN Unauthorized(r, log, S)
            ELSE IF r.status = HTTP_BAD_REQUEST
            THEN Done("AuthError", None, log \o <<LogRecord("bad request", r.status, r.body)>>, S)
            ELSE IF ~raise_for_status(r).ok
            THEN Done("RequestError", None, log \o <<LogRecord("exception", 0, EmptyText)>>, S)
            ELSE
            LET j == json(r, r.status # HTTP_OK)
            IN  IF ~j.ok
                THEN IF j.exc = "JSONDecodeError"
                     THEN Done("ParseError", None, log \o <<LogRecord("exception", 0, EmptyText)>>, S)
                     ELSE Done(OuterExcept(j.exc), None,
                               IF OuterExcept(j.exc) = "RequestError"
                               THEN log \o <<LogRecord("exception", 0, EmptyText)>> ELSE log, S)
                ELSE
                LET items == Items(j.v)
                IN  IF ~items.ok THEN Done(items.exc, None, log, S)
                    ELSE
                    LET data == Restrict(items.v, CookidooAuthResponse)
                        set == auth_data_setter([S EXCEPT !.aliased = FALSE], data, t)
                        \* data is a dict of this call, and the caller gets
                        \* data.copy(): once the setter has stored data,
                        \* _auth_data is held by the client alone
                        S2 == [set.S EXCEPT !.aliased = IF @ THEN FALSE ELSE S.aliased]
                    IN  IF set.exc # "none" THEN Done(set.exc, None, log, S2)
                        ELSE Done("return", data, log, S2)

(***************************************************************************)
(* Response mapping of the domain operations                               *)
(***************************************************************************)
Min(set) == CHOOSE x \in set : \A y \in set : x <= y

\* The list a comprehension builds from the outcomes of its element
\* expressions, taken in order: the values, or the first exception raised
Collect(res) ==
    LET bad == {i \in 1..Len(res) : ~res[i].ok}
    IN  IF bad = {} THEN Ok([i \in 1..Len(res) |-> res[i].v]) ELSE Raise(res[Min(bad)].exc)

RECURSIVE Concat(_)
Concat(seqs) == IF Len(seqs) = 0 THEN <<>> ELSE Head(seqs) \o Concat(Tail(seqs))

\* for x in j: a list yields its elements, a dict its keys and a str its
\* characters (both are strings, shown here without their content), anything
\* else is not iterable
Iterate(j) ==
    CASE j.t = "arr" -> Ok(j.v)
      [] j.t = "obj" -> Ok([i \in 1..Cardinality(DOMAIN j.v) |-> JStr(<<107>>)])
      [] j.t = "str" -> Ok([i \in 1..Len(j.v) |-> JStr(<<j.v[i]>>)])
      [] OTHER -> Raise("TypeError")

\* a record built from item[key] for each of the keys, in the order given
FromJson(item, fields) ==
    LET got == Collect([i \in 1..Len(fields) |-> Subscript(item, fields[i][2])])
    IN  IF ~got.ok THEN got
        ELSE Ok([k \in {fields[i][1] : i \in 1..Len(fields)} |->
                    got.v[CHOOSE i \in 1..Len(fields) : fields[i][1] = k]])

\* cookidoo_api.helpers
cookidoo_recipe_from_json(recipe) == FromJson(recipe, <<<<"id", "id">>, <<"name", "title">>>>)
cookidoo_recipe_details_from_json(recipe) == FromJson(recipe, <<<<"id", "id">>, <<"name", "title">>>>)
cookidoo_ingredient_item_from_json(item) ==
    FromJson(item, <<<<"id", "id">>, <<"name", "name">>, <<"is_owned", "isOwned">>>>)
cookidoo_additional_item_from_json(item) ==
    FromJson(item, <<<<"id", "id">>, <<"name", "name">>, <<"is_owned", "isOwned">>>>)

\* {key: val for key, val in obj.items() if key in fields}
Project(obj, fields) ==
    LET items == Items(obj) IN IF ~items.ok THEN items ELSE Ok(Restrict(items.v, fields))

\* helper(x) for one of the helpers of cookidoo_api.helpers
Convert(helper, x) ==
    CASE helper = "recipe" -> cookidoo_recipe_from_json(x)
      [] helper = "ingredient_item" -> cookidoo_ingredient_item_from_json(x)
      [] helper = "additional_item" -> cookidoo_additional_item_from_json(x)

\* as ListOf, building the list from the last element to the first
ListOf_Reversed(helper, j, key) ==
    LET list == Subscript(j, key)
    IN  IF ~list.ok THEN list
        ELSE LET elems == Iterate(list.v)
             IN  IF ~elems.ok THEN elems
                 ELSE Collect([i \in 1..Len(elems.v) |->
                                  Convert(helper, elems.v[Len(elems.v) + 1 - i])])

\* [helper(x) for x in j[key]]
ListOf(helper, j, key) ==
    LET list == Subscript(j, key)
    IN  IF ~list.ok THEN list
        ELSE LET elems == Iterate(list.v)
             IN  IF ~elems.ok THEN elems
                 ELSE Collect([i \in 1..Len(elems.v) |-> Convert(helper, elems.v[i])])

\* as FlattenOf, with the outer loop only
FlattenOf_OuterOnly(helper, j, key) == ListOf(helper, j, key)

\* [helper(x) for outer in j[key] for x in outer["recipeIngredientGroups"]]
FlattenOf(helper, j, key) ==
    LET list == Subscript(j, key)
    IN  IF ~list.ok THEN list
        ELSE LET elems == Iterate(list.v)
             IN  IF ~elems.ok THEN elems
                 ELSE LET groups == Collect([i \in 1..Len(elems.v) |->
                                        ListOf(helper, elems.v[i], "recipeIngredientGroups")])
                      IN  IF ~groups.ok THEN groups ELSE Ok(Concat(groups.v))

\* next((s for s in j if s["active"]), None): the first element whose active
\* field is truthy; the elements before it have been subscripted as well
FirstActive(j) ==
    LET elems == Iterate(j)
    IN  IF ~elems.ok THEN elems
        ELSE
        LET active == [i \in 1..Len(elems.v) |-> Subscript(elems.v[i], "active")]
            stop == {i \in 1..Len(elems.v) : ~active[i].ok \/ Truthy(active[i].v)}
        IN  IF stop = {} THEN Ok(None)
            ELSE IF ~active[Min(stop)].ok THEN active[Min(stop)]
            ELSE Ok(elems.v[Min(stop)])

NoBodyOps == {"remove_ingredient_items_for_recipes", "remove_additional_items", "clear_shopping_list"}

\* as ParseBody, with edit_ingredient_items_ownership flattening data as
\* add_ingredient_items_for_recipes does
ParseBody_EditFlattens(op, j) ==
    CASE op = "get_user_info" ->
            LET info == Subscript(j, "userInfo")
            IN  IF ~info.ok THEN info ELSE Project(info.v, CookidooUserInfo)
      [] op = "get_active_subscription" ->
            LET subscription == FirstActive(j)
            IN  IF ~subscription.ok THEN subscription
                ELSE IF subscription.v = None THEN Ok(None)
                ELSE Project(subscription.v, CookidooSubscription)
      [] op = "get_recipe_details" -> cookidoo_recipe_details_from_json(j)
      [] op = "get_shopping_list_recipes" -> ListOf("recipe", j, "recipes")
      [] op = "get_ingredient_items" -> FlattenOf("ingredient_item", j, "recipes")
      [] op = "add_ingredient_items_for_recipes" ->
            FlattenOf("ingredient_item", j, "data")
      [] op = "edit_ingredient_items_ownership" ->
            FlattenOf("ingredient_item", j, "data")
      [] op = "get_additional_items" ->
            ListOf("additional_item", j, "additionalItems")
      [] op \in {"add_additional_items", "edit_additional_items", "edit_additional_items_ownership"} ->
            ListOf("additional_item", j, "data")

\* the expression each operation evaluates on the decoded body j
ParseBody(op, j) ==
    CASE op = "get_user_info" ->
            LET info == Subscript(j, "userInfo")
            IN  IF ~info.ok THEN info ELSE Project(info.v, CookidooUserInfo)
      [] op = "get_active_subscription" ->
            LET subscription == FirstActive(j)
            IN  IF ~subscription.ok THEN subscription
                ELSE IF subscription.v = None THEN Ok(None)
                ELSE Project(subscription.v, CookidooSubscription)
      [] op = "get_recipe_details" -> cookidoo_recipe_details_from_json(j)
      [] op = "get_shopping_list_recipes" -> ListOf("recipe", j, "recipes")
      [] op = "get_ingredient_items" -> FlattenOf("ingredient_item", j, "recipes")
      [] op = "add_ingredient_items_for_recipes" ->
            FlattenOf("ingredient_item", j, "data")
      [] op = "edit_ingredient_items_ownership" ->
            ListOf("ingredient_item", j, "data")
      [] op = "get_additional_items" ->
            ListOf("additional_item", j, "additionalItems")
      [] op \in {"add_additional_items", "edit_additional_items", "edit_additional_items_ownership"} ->
            ListOf("additional_item", j, "data")

\* a domain operation from the response on: the debug line, the 401 branch,
\* raise_for_status, then the mapping of the body
ApiRequest(op, r, S) ==
    IF r.fail \in SendFailures
    THEN Done("RequestError", None, <<LogRecord("exception", 0, EmptyText)>>, S)
    ELSE
    LET logged == text(r, FALSE)
    IN  IF ~logged.ok
        THEN Done(OuterExcept(logged.exc), None,
                  IF OuterExcept(logged.exc) = "RequestError"
                  THEN <<LogRecord("exception", 0, EmptyText)>> ELSE <<>>, S)
        ELSE
        LET log == <<LogRecord("response", r.status, logged.v)>>
        IN  IF r.status = HTTP_UNAUTHORIZED THEN Unauthorized(r, log, S)
            ELSE IF ~raise_for_status(r).ok
            THEN Done("RequestError", None, log \o <<LogRecord("exception", 0, EmptyText)>>, S)
            ELSE IF op \in NoBodyOps THEN Done("return", None, log, S)
            ELSE
            LET j == json(r, TRUE)
            IN  IF ~j.ok
                THEN IF j.exc = "JSONDecodeError"
                     THEN Done("ParseError", None, log \o <<LogRecord("exception", 0, EmptyText)>>, S)
                     ELSE Done(OuterExcept(j.exc), None, log, S)
                ELSE
                LET parsed == ParseBody(op, j.v)
                IN  IF parsed.ok THEN Done("return", parsed.v, log, S)
                    ELSE IF parsed.exc = "KeyError"
                    THEN Done("ParseError", None, log \o <<LogRecord("exception", 0, EmptyText)>>, S)
                    ELSE Done(parsed.exc, None, log, S)

(***************************************************************************)
(* Response bodies the transport may deliver                               *)
(***************************************************************************)
Grant(access_token, refresh_token, token_type, expires_in) ==
    [access_token |-> access_token, refresh_token |-> refresh_token,
     token_type |-> token_type, expires_in |-> expires_in]

GrantAT == Grant(JStr(s_AT), JStr(s_RT), JStr(s_bearer), JNum(2))
GrantAU == Grant(JStr(s_AU), JStr(s_RU), JStr(s_MAC), JNum(1))

\* well-formed grants: plain, with an unknown key, with expires_in as a digit string
GoodTokenBodies ==
    { JObj(GrantAT),
      JObj(With(GrantAU, "scope", JStr(s_x))),
      JObj(With(GrantAT, "expires_in", JStr(s_2))) }

\* objects an AuthResponse cannot be made of
BadTokenBodies ==
    { JObj(Without(GrantAT, k)) : k \in CookidooAuthResponse } \cup
    { JObj(With(GrantAT, "token_type", JNum(1))),
      JObj(With(GrantAT, "expires_in", JStr(s_x))),
      JObj(With(GrantAT, "expires_in", JNull)) }

\* a grant the authorization server should never issue
OddTokenBodies == { JObj(Grant(JStr(s_empty), JStr(s_RT), JStr(s_bearer), JNum(0 - 1))) }

Described == JObj([error_description |-> JStr(s_denied)])

\* bodies of any endpoint: not JSON, empty, and JSON of each type
GenericBodies == { Invalid, Empty, JObj(<<>>), JArr(<<>>), JStr(s_x), JNum(1), Described }

Item1 == JObj([id |-> JStr(s_AT), name |-> JStr(s_x), isOwned |-> JBool(FALSE)])
Item2 == JObj([id |-> JStr(s_AU), name |-> JStr(s_x), isOwned |-> JBool(TRUE), unit |-> JStr(s_x)])
Item3 == JObj([id |-> JStr(s_RT), name |-> JStr(s_x), isOwned |-> JBool(FALSE)])
ItemNoName == JObj([id |-> JStr(s_RU), isOwned |-> JBool(FALSE)])

RecipeOf(id, groups) == JObj([id |-> JStr(id), title |-> JStr(s_x), recipeIngredientGroups |-> JArr(groups)])
RecipeNoGroups == JObj([id |-> JStr(s_AT), title |-> JStr(s_x)])

UserInfoBodies ==
    { JObj([userInfo |-> JObj([username |-> JStr(s_x), description |-> JStr(s_x),
                               picture |-> JStr(s_x), savedSearches |-> JArr(<<>>)])]),
      JObj([userInfo |-> JObj([username |-> JStr(s_x)])]),
      JObj([userInfo |-> JArr(<<>>)]) }

Sub(active, status) == JObj([active |-> active, status |-> JStr(status)])

SubscriptionBodies ==
    { JArr(<<Sub(JBool(FALSE), s_x)>>),
      JArr(<<Sub(JBool(FALSE), s_x),
             JObj([active |-> JBool(TRUE), status |-> JStr(s_AT), expires |-> JStr(s_2),
                   level |-> JStr(s_x)]),
             Sub(JBool(TRUE), s_AU)>>),
      JArr(<<JObj([status |-> JStr(s_x)]), Sub(JBool(TRUE), s_AT)>>),
      JArr(<<Sub(JBool(TRUE), s_AT), JObj([status |-> JStr(s_x)])>>),
      JArr(<<JNum(1)>>) }

ListBodies ==
    { JObj([recipes |-> JArr(<<RecipeOf(s_AT, <<Item1, Item2>>), RecipeOf(s_AU, <<Item3>>)>>)]),
      JObj([recipes |-> JArr(<<>>)]),
      JObj([recipes |-> JArr(<<RecipeNoGroups>>)]),
      JObj([recipes |-> JArr(<<RecipeOf(s_AT, <<Item1, ItemNoName>>)>>)]),
      JObj([data |-> JArr(<<RecipeOf(s_AT, <<Item1>>), RecipeOf(s_AU, <<Item2, Item3>>)>>)]),
      JObj([data |-> JArr(<<Item1, Item2>>)]),
      JObj([data |-> JArr(<<>>)]),
      JObj([additionalItems |-> JArr(<<Item1, Item2>>)]),
      JObj([additionalItems |-> JArr(<<>>)]),
      JObj([additionalItems |-> JArr(<<ItemNoName>>)]),
      RecipeNoGroups }

\* statuses: 200 and another 2xx, a 3xx, and the error statuses the code tells apart
Statuses2xx == {200, 201}
ErrorBodies == { Invalid, Empty, JObj(<<>>), JArr(<<>>), Described }

\* what goes wrong below the body: sending, reading, content type, charset
Failing(status, body) ==
    { [Resp(status, body) EXCEPT !.fail = f] :
         f \in {"timeout_send", "client_send", "timeout_read", "client_read"} } \cup
    { [Resp(status, body) EXCEPT !.json_ctype = FALSE],
      [Resp(status, Invalid) EXCEPT !.decodable = FALSE] }

TokenResponses ==
    { Resp(s, b) : s \in Statuses2xx, b \in GoodTokenBodies \cup BadTokenBodies \cup OddTokenBodies \cup GenericBodies } \cup
    { Resp(s, b) : s \in {304, 400, 401, 500}, b \in ErrorBodies \cup {JObj(GrantAT)} } \cup
    UNION { Failing(s, JObj(GrantAT)) : s \in {200, 201, 400, 401} }

ApiResponses ==
    { Resp(s, b) : s \in Statuses2xx, b \in GenericBodies \cup UserInfoBodies \cup SubscriptionBodies \cup ListBodies } \cup
    { Resp(s, b) : s \in {304, 400, 401, 500}, b \in ErrorBodies } \cup
    UNION { Failing(s, JObj(<<>>)) : s \in {200, 400, 401} }

\* AuthResponse values a caller may have stored and assign to auth_data
StoredAuthData == { GrantAT, GrantAU, Without(GrantAT, "expires_in") }

(***************************************************************************)
(* The client as a state machine                                           *)
(***************************************************************************)
NoResp == Resp(0, Empty)
NoCall == [op |-> "none", url |-> <<>>, headers |-> <<>>, form |-> <<>>]

\* TOKEN_ENDPOINT.format(site=DEFAULT_SITE): the same for every configuration
token_endpoint == [template |-> "TOKEN_ENDPOINT", localization |-> <<>>]

\* self.api_endpoint / PATH.format(**self._cfg["localization"]): the URL of a
\* domain operation, made of the templates of the operation and of the
\* localization held
api_url(op, cfg) == [template |-> op, localization |-> cfg["localization"]]

\* last: the outcome of the operation completed most recently ("none" while a
\* call is being made): the operation, what it sent and received, how it ended
\* (kind is "return" or the exception raised), the value returned, the debug
\* records it logged and the number of HTTP requests it issued
NoResult == [op |-> "none", kind |-> "none", value |-> None, log |-> <<>>,
             nreq |-> 0, sent |-> NoCall, resp |-> NoResp]

Result(op, out, nreq, call, r) ==
    [op |-> op, kind |-> out.kind, value |-> out.value, log |-> out.log,
     nreq |-> nreq, sent |-> call, resp |-> r]

TokenOps == {"login", "refresh_token"}
ApiOps == {"get_user_info", "get_active_subscription", "get_recipe_details",
           "get_shopping_list_recipes", "get_ingredient_items",
           "add_ingredient_items_for_recipes", "remove_ingredient_items_for_recipes",
           "edit_ingredient_items_ownership", "get_additional_items", "add_additional_items",
           "edit_additional_items", "edit_additional_items_ownership",
           "remove_additional_items", "clear_shopping_list"}

Init ==
    /\ _cfg = DEFAULT_COOKIDOO_CONFIG
    /\ _token_headers = DEFAULT_TOKEN_HEADERS
    /\ _api_headers = DEFAULT_API_HEADERS
    /\ _auth_data = None
    /\ __expires_in = Unset
    /\ __dict__ = <<>>
    /\ aliased = FALSE
    /\ now = 0
    /\ inflight = {}
    /\ last = NoResult

\* if not self._auth_data: None and the empty dict are both false
NoAuthData_Unchecked(auth_data) == FALSE
NoAuthData(auth_data) == auth_data = None \/ DOMAIN auth_data = {}

\* the caller awaits each operation before it starts the next
Idle == inflight = {}

\* self._session.post/get/delete(url, ...): the request leaves
Send(call) ==
    /\ Idle
    /\ inflight' = {call}
    /\ last' = NoResult
    /\ UNCHANGED <<_cfg, _token_headers, _api_headers, _auth_data, __expires_in, __dict__, aliased, now>>

\* the operation ends with outcome out
Finish(op, out, nreq, call, r) ==
    /\ _auth_data' = out.S.auth_data
    /\ _api_headers' = out.S.api_headers
    /\ __expires_in' = out.S.expires
    /\ aliased' = out.S.aliased
    /\ last' = Result(op, out, nreq, call, r)
    /\ UNCHANGED <<_cfg, _token_headers, __dict__, now>>

\* as TokenAnswer, with refresh_token reporting a refused grant as a failed
\* request
TokenAnswer_RefreshRefused(op) ==
    \E call \in inflight : \E r \in TokenResponses :
        LET out == _request_access_token(r, Session, now)
        IN  /\ call.op = op
            /\ inflight' = inflight \ {call}
            /\ Finish(op,
                      IF op = "refresh_token" /\ out.kind = "AuthError"
                      THEN [out EXCEPT !.kind = "RequestError"] ELSE out,
                      1, call, r)

\* the transport answers the token request and _request_access_token finishes
TokenAnswer(op) ==
    \E call \in inflight : \E r \in TokenResponses :
        /\ call.op = op
        /\ inflight' = inflight \ {call}
        /\ Finish(op, _request_access_token(r, Session, now), 1, call, r)

\* as ApiAnswer, with the rest of the operation waiting until auth data is held
ApiAnswer_WaitsForLogin(op) ==
    \E call \in inflight : \E r \in ApiResponses :
        /\ ~NoAuthData(_auth_data)
        /\ call.op = op
        /\ inflight' = inflight \ {call}
        /\ Finish(op, ApiRequest(op, r, Session), 1, call, r)

\* as ApiAnswer, with a refresh of the token sent when the answer is a 401
ApiAnswer_RefreshOn401(op) ==
    \E call \in inflight : \E r \in ApiResponses :
        /\ call.op = op
        /\ inflight' = IF r.status = HTTP_UNAUTHORIZED
                       THEN {[op |-> "refresh_token", url |-> token_endpoint, headers |-> _token_headers,
                              form |-> <<>>]}
                       ELSE inflight \ {call}
        /\ Finish(op, ApiRequest(op, r, Session), 1, call, r)

\* the transport answers the request of a domain operation
ApiAnswer(op) ==
    \E call \in inflight : \E r \in ApiResponses :
        /\ call.op = op
        /\ inflight' = inflight \ {call}
        /\ Finish(op, ApiRequest(op, r, Session), 1, call, r)

\* as ApiCall, refusing to call the API while no auth data is held
ApiCall_NeedsLogin(op) ==
    \/ /\ Idle
       /\ NoAuthData(_auth_data)
       /\ inflight' = inflight
       /\ Finish(op, Done("ConfigError", None, <<>>, Session), 0, NoCall, NoResp)
    \/ /\ ~NoAuthData(_auth_data)
       /\ Send([op |-> op, url |-> api_url(op, _cfg), headers |-> _api_headers, form |-> <<>>])
    \/ ApiAnswer(op)

ApiCall(op) == Send([op |-> op, url |-> api_url(op, _cfg), headers |-> _api_headers, form |-> <<>>]) \/ ApiAnswer(op)

\* as login, sending the request with the headers of the API calls
login_ApiHeaders ==
    \/ Send([op |-> "login", url |-> token_endpoint, headers |-> _api_headers,
             form |-> [grant_type |-> "password", username |-> _cfg.email,
                       password |-> _cfg.password]])
    \/ TokenAnswer("login")

login ==
    \/ Send([op |-> "login", url |-> token_endpoint, headers |-> _token_headers,
             form |-> [grant_type |-> "password", username |-> _cfg.email,
                       password |-> _cfg.password]])
    \/ TokenAnswer("login")

refresh_token ==
    \/ /\ Idle
       /\ NoAuthData(_auth_data)
       /\ inflight' = inflight
       /\ Finish("refresh_token", Done("ConfigError", None, <<>>, Session), 0, NoCall, NoResp)
    \/ /\ Idle
       /\ ~NoAuthData(_auth_data)
       /\ "refresh_token" \notin DOMAIN _auth_data
       /\ inflight' = inflight
       /\ Finish("refresh_token", Done("KeyError", None, <<>>, Session), 0, NoCall, NoResp)
    \/ /\ ~NoAuthData(_auth_data)
       /\ "refresh_token" \in DOMAIN _auth_data
       /\ Send([op |-> "refresh_token", url |-> token_endpoint, headers |-> _token_headers,
                form |-> [grant_type |-> "refresh_token",
                          refresh_token |-> _auth_data["refresh_token"],
                          client_id |-> COOKIDOO_CLIENT_ID]])
    \/ TokenAnswer("refresh_token")

get_user_info == ApiCall("get_user_info")
get_active_subscription == ApiCall("get_active_subscription")
get_recipe_details == ApiCall("get_recipe_details")
get_shopping_list_recipes == ApiCall("get_shopping_list_recipes")
get_ingredient_items == ApiCall("get_ingredient_items")
add_ingredient_items_for_recipes == ApiCall("add_ingredient_items_for_recipes")
remove_ingredient_items_for_recipes == ApiCall("remove_ingredient_items_for_recipes")
edit_ingredient_items_ownership == ApiCall("edit_ingredient_items_ownership")
get_additional_items == ApiCall("get_additional_items")
add_additional_items == ApiCall("add_additional_items")
edit_additional_items == ApiCall("edit_additional_items")
edit_additional_items_ownership == ApiCall("edit_additional_items_ownership")
remove_additional_items == ApiCall("remove_additional_items")
clear_shopping_list == ApiCall("clear_shopping_list")

\* as set_auth_data, leaving the expiry to the next login
set_auth_data_KeepsExpiry ==
    \E stored \in StoredAuthData :
        LET set == auth_data_setter(Session, stored, now)
        IN  /\ Idle
            /\ inflight' = inflight
            /\ Finish("auth_data",
                      Done(IF set.exc = "none" THEN "return" ELSE set.exc, None, <<>>,
                           [set.S EXCEPT !.expires = __expires_in]),
                      0, NoCall, NoResp)

\* cookidoo.auth_data = stored: the caller restores a stored AuthResponse
set_auth_data ==
    \E stored \in StoredAuthData :
        LET set == auth_data_setter(Session, stored, now)
        IN  /\ Idle
            /\ inflight' = inflight
            /\ Finish("auth_data",
                      Done(IF set.exc = "none" THEN "return" ELSE set.exc, None, <<>>, set.S),
                      0, NoCall, NoResp)

\* cookidoo.expires_in: the caller reads the remaining validity
get_expires_in ==
    LET read == expires_in_getter(Session, now)
    IN  /\ Idle
        /\ inflight' = inflight
        /\ Finish("expires_in",
                  Done(IF read.ok THEN "return" ELSE read.exc,
                       IF read.ok THEN read.v ELSE None, <<>>, Session),
                  0, NoCall, NoResp)

\* time.time() advances
Tick ==
    /\ now < MaxTime
    /\ now' = now + 1
    /\ UNCHANGED <<_cfg, _token_headers, _api_headers, _auth_data, __expires_in, __dict__, aliased, inflight, last>>

Next ==
    \/ login
    \/ refresh_token
    \/ get_user_info
    \/ get_active_subscription
    \/ get_recipe_details
    \/ get_shopping_list_recipes
    \/ get_ingredient_items
    \/ add_ingredient_items_for_recipes
    \/ remove_ingredient_items_for_recipes
    \/ edit_ingredient_items_ownership
    \/ get_additional_items
    \/ add_additional_items
    \/ edit_additional_items
    \/ edit_additional_items_ownership
    \/ remove_additional_items
    \/ clear_shopping_list
    \/ set_auth_data
    \/ get_expires_in
    \/ Tick

Spec == Init /\ [][Next]_vars

(***************************************************************************)
(* Overlapping calls: the caller starts operations without awaiting the    *)
(* ones it started before (asyncio.gather, create_task).  A coroutine runs *)
(* without interruption up to the await of its request and, once the       *)
(* response is there, the session is only touched by the auth_data setter, *)
(* which does not await.                                                   *)
(***************************************************************************)
ConcTokenResponses ==
    { Resp(200, JObj(GrantAT)),
      Resp(200, JObj(With(GrantAU, "scope", JStr(s_x)))),
      Resp(200, JObj(Without(GrantAT, "refresh_token"))),
      Resp(200, JObj(Without(GrantAT, "expires_in"))),
      Resp(401, Described) }

ConcApiResponses ==
    { Resp(200, JObj([userInfo |-> JObj([username |-> JStr(s_x)])])),
      Resp(200, JObj([additionalItems |-> JArr(<<Item1, Item2>>)])),
      Resp(401, Described) }

\* self._session.post/get(url, headers=...): the request is built from the
\* headers and the form as they are now, and leaves
Dispatch(call) ==
    /\ Cardinality(inflight) < MaxInFlight
    /\ call \notin inflight
    /\ inflight' = inflight \cup {call}
    /\ last' = NoResult
    /\ UNCHANGED <<_cfg, _token_headers, _api_headers, _auth_data, __expires_in, __dict__, aliased, now>>

\* as TokenReply, with the requests in flight reading the headers of the
\* session when they are answered instead of carrying their own
TokenReply_SharedHeaders(op) ==
    \E call \in inflight : \E r \in ConcTokenResponses :
        LET out == _request_access_token(r, Session, now)
        IN  /\ call.op = op
            /\ inflight' = { IF c.op \in ApiOps THEN [c EXCEPT !.headers = out.S.api_headers] ELSE c :
                                c \in inflight \ {call} }
            /\ Finish(op, out, 1, call, r)

\* one of the token requests in flight is answered and _request_access_token finishes
TokenReply(op) ==
    \E call \in inflight : \E r \in ConcTokenResponses :
        /\ call.op = op
        /\ inflight' = inflight \ {call}
        /\ Finish(op, _request_access_token(r, Session, now), 1, call, r)

\* one of the requests of a domain operation in flight is answered
ApiReply(op) ==
    \E call \in inflight : \E r \in ConcApiResponses :
        /\ call.op = op
        /\ inflight' = inflight \ {call}
        /\ Finish(op, ApiRequest(op, r, Session), 1, call, r)

ConcLogin ==
    \/ Dispatch([op |-> "login", url |-> token_endpoint, headers |-> _token_headers,
                 form |-> [grant_type |-> "password", username |-> _cfg.email,
                           password |-> _cfg.password]])
    \/ TokenReply("login")

ConcRefreshToken ==
    \/ /\ NoAuthData(_auth_data)
       /\ inflight' = inflight
       /\ Finish("refresh_token", Done("ConfigError", None, <<>>, Session), 0, NoCall, NoResp)
    \/ /\ ~NoAuthData(_auth_data)
       /\ "refresh_token" \notin DOMAIN _auth_data
       /\ inflight' = inflight
       /\ Finish("refresh_token", Done("KeyError", None, <<>>, Session), 0, NoCall, NoResp)
    \/ /\ ~NoAuthData(_auth_data)
       /\ "refresh_token" \in DOMAIN _auth_data
       /\ Dispatch([op |-> "refresh_token", url |-> token_endpoint,
                    headers |-> _token_headers,
                    form |-> [grant_type |-> "refresh_token",
                              refresh_token |-> _auth_data["refresh_token"],
                              client_id |-> COOKIDOO_CLIENT_ID]])
    \/ TokenReply("refresh_token")

ConcGetUserInfo ==
    \/ Dispatch([op |-> "get_user_info", url |-> api_url("get_user_info", _cfg),
                 headers |-> _api_headers, form |-> <<>>])
    \/ ApiReply("get_user_info")

ConcGetAdditionalItems ==
    \/ Dispatch([op |-> "get_additional_items", url |-> api_url("get_additional_items", _cfg),
                 headers |-> _api_headers, form |-> <<>>])
    \/ ApiReply("get_additional_items")

NextConc ==
    \/ ConcLogin
    \/ ConcRefreshToken
    \/ ConcGetUserInfo
    \/ ConcGetAdditionalItems

SpecConc == Init /\ [][NextConc]_vars

(***************************************************************************)
(* The operations with a transport that answers or fails every request:    *)
(* the response arrives, the event loop resumes the coroutine that awaits  *)
(* it, and the rest of the operation runs.                                 *)
(***************************************************************************)
Answer ==
    \/ \E op \in TokenOps : TokenAnswer(op)
    \/ \E op \in ApiOps : ApiAnswer(op)

NextLive ==
    \/ login
    \/ refresh_token
    \/ get_user_info
    \/ get_active_subscription
    \/ get_recipe_details
    \/ get_shopping_list_recipes
    \/ get_ingredient_items
    \/ add_ingredient_items_for_recipes
    \/ remove_ingredient_items_for_recipes
    \/ edit_ingredient_items_ownership
    \/ get_additional_items
    \/ add_additional_items
    \/ edit_additional_items
    \/ edit_additional_items_ownership
    \/ remove_additional_items
    \/ clear_shopping_list

SpecLive == Init /\ [][NextLive]_vars /\ WF_vars(Answer)

(***************************************************************************)
(* The AuthResponse dicts the caller holds.  A dict is an object: the      *)
(* caller may change one it holds, and the client sees the change when it  *)
(* holds the same object.                                                  *)
(***************************************************************************)
\* auth_data (getter): self._auth_data.copy() if self._auth_data else None
auth_data_getter(S) ==
    IF NoAuthData(S.auth_data) THEN [value |-> None, S |-> S]
    ELSE [value |-> S.auth_data, S |-> S]

\* cookidoo.auth_data: the caller reads the held AuthResponse
get_auth_data ==
    LET read == auth_data_getter(Session)
    IN  /\ Idle
        /\ inflight' = inflight
        /\ Finish("get_auth_data", Done("return", read.value, <<>>, read.S), 0, NoCall, NoResp)

\* returned["refresh_token"] = "x" on the dict that login, refresh_token or
\* the auth_data getter has just returned, which is a copy (data.copy(),
\* self._auth_data.copy()) that the caller alone holds
mutate_returned ==
    /\ Idle
    /\ last.op \in TokenOps \cup {"get_auth_data"}
    /\ last.kind = "return"
    /\ last.value # None
    /\ last' = [last EXCEPT !.op = "mutate_returned",
                            !.value = With(@, "refresh_token", JStr(s_x))]
    /\ UNCHANGED <<_cfg, _token_headers, _api_headers, _auth_data, __expires_in, __dict__,
                   aliased, now, inflight>>

\* stored["refresh_token"] = "x" on the dict the caller has assigned to
\* auth_data and the client still holds
mutate_assigned ==
    /\ Idle
    /\ aliased
    /\ _auth_data' = With(_auth_data, "refresh_token", JStr(s_x))
    /\ last' = [NoResult EXCEPT !.op = "mutate_assigned", !.kind = "return"]
    /\ UNCHANGED <<_cfg, _token_headers, _api_headers, __expires_in, __dict__, aliased,
                   now, inflight>>

NextAlias ==
    \/ login
    \/ refresh_token
    \/ set_auth_data
    \/ get_auth_data
    \/ mutate_returned
    \/ mutate_assigned

SpecAlias == Init /\ [][NextAlias]_vars

(***************************************************************************)
(* The configuration and the localization the caller reads.  The value the *)
(* property returns is a dict; ref tells which object it is: a new one     *)
(* ("copy") or the one the configuration holds ("_cfg").                   *)
(***************************************************************************)
\* as localization_getter, returning the dict of the configuration itself
localization_getter_NoCopy(cfg) == [value |-> cfg["localization"], ref |-> "_cfg"]

\* localization: self._cfg["localization"].copy()
localization_getter(cfg) == [value |-> cfg["localization"], ref |-> "copy"]

\* cookidoo.localization: the caller reads the localization
get_localization ==
    /\ Idle
    /\ last' = [NoResult EXCEPT !.op = "localization", !.kind = "return",
                                !.value = localization_getter(_cfg)]
    /\ UNCHANGED <<_cfg, _token_headers, _api_headers, _auth_data, __expires_in, __dict__,
                   aliased, now, inflight>>

Languages == {"en-GB", "fr-FR"}

\* returned["language"] = language on the dict the property has returned: the
\* configuration changes with it when it holds that very dict
mutate_localization ==
    \E language \in Languages :
        /\ Idle
        /\ last.op \in {"localization", "mutate_localization"}
        /\ last' = [last EXCEPT !.op = "mutate_localization",
                                !.value = [@ EXCEPT !.value = [@ EXCEPT !.language = language]]]
        /\ _cfg' = IF last.value.ref = "_cfg"
                   THEN [_cfg EXCEPT !.localization = [@ EXCEPT !.language = language]]
                   ELSE _cfg
        /\ UNCHANGED <<_token_headers, _api_headers, _auth_data, __expires_in, __dict__,
                       aliased, now, inflight>>

NextCfg ==
    \/ NextLive
    \/ get_localization
    \/ mutate_localization

SpecCfg == Init /\ [][NextCfg]_vars

(***************************************************************************)
(* Attributes the class does not define.  __dict__ holds the attributes of *)
(* the instance other than the ones __init__ sets: the class has neither   *)
(* __slots__ nor __setattr__, so an assignment to such a name stores the   *)
(* value and a read of a name never assigned finds nothing.                *)
(***************************************************************************)
\* the strings of up to n characters of the alphabet
StringsUpTo(alphabet, n) == UNION { [1..k -> alphabet] : k \in 0..n }

\* strings a caller assigns to cookidoo.cookies, such as "[]"
CookieStrings == StringsUpTo({91, 93, 97, 44}, MaxStringLen)

\* instance.name: looked up in the instance, then in the class, where there
\* is no such name
getattr(attributes, name) ==
    IF name \in DOMAIN attributes THEN Ok(attributes[name]) ELSE Raise("AttributeError")

\* cookidoo.cookies = value
set_cookies ==
    \E value \in CookieStrings :
        /\ __dict__' = With(__dict__, "cookies", value)
        /\ last' = [NoResult EXCEPT !.op = "cookies=", !.kind = "return"]
        /\ UNCHANGED <<_cfg, _token_headers, _api_headers, _auth_data, __expires_in,
                       aliased, now, inflight>>

\* cookidoo.cookies
get_cookies ==
    LET read == getattr(__dict__, "cookies")
    IN  /\ last' = [NoResult EXCEPT !.op = "cookies",
                                    !.kind = IF read.ok THEN "return" ELSE read.exc,
                                    !.value = IF read.ok THEN read.v ELSE None]
        /\ UNCHANGED <<_cfg, _token_headers, _api_headers, _auth_data, __expires_in,
                       __dict__, aliased, now, inflight>>

\* a cookie as cookies_deserialize gives it: a dict with name and value
Cookie(name, value) == [name |-> name, value |-> value]

CookieNames == {"v-token", "v-authenticated", "_oauth2_proxy"}
CookieValues == {"TEST_TOKEN", "1", "2"}

\* the lists of up to MaxCookies cookies in which no name occurs twice
CookieLists ==
    LET all == UNION { [1..k -> { Cookie(n, v) : n \in CookieNames, v \in CookieValues }] :
                         k \in 0..MaxCookies }
    IN  { l \in all : \A i, j \in 1..Len(l) : l[i].name = l[j].name => i = j }

\* the list with the cookie put in the place of the one of its name, or at
\* the end when the list has no cookie of that name
PutCookie(list, cookie) ==
    IF \E i \in 1..Len(list) : list[i].name = cookie.name
    THEN [i \in 1..Len(list) |-> IF list[i].name = cookie.name THEN cookie ELSE list[i]]
    ELSE Append(list, cookie)

\* as merge_cookies, adding the new cookies after the old ones
merge_cookies_Appended(cookies, new_cookies) == cookies \o new_cookies

\* cookidoo_api.helpers.merge_cookies
RECURSIVE merge_cookies(_, _)
merge_cookies(cookies, new_cookies) ==
    IF Len(new_cookies) = 0 THEN cookies
    ELSE merge_cookies(PutCookie(cookies, Head(new_cookies)), Tail(new_cookies))

\* the call merge_cookies(cookies, new_cookies) before it has run;
\* last.sent.form holds the arguments
MergeCall(cookies, new_cookies) ==
    [NoResult EXCEPT
       !.op = "merge_cookies", !.kind = "call",
       !.sent = [op |-> "merge_cookies", url |-> <<>>, headers |-> <<>>,
                 form |-> [cookies |-> cookies, new_cookies |-> new_cookies]]]

\* a client as constructed and a call of merge_cookies on two lists
InitMerge ==
    /\ _cfg = DEFAULT_COOKIDOO_CONFIG
    /\ _token_headers = DEFAULT_TOKEN_HEADERS
    /\ _api_headers = DEFAULT_API_HEADERS
    /\ _auth_data = None
    /\ __expires_in = Unset
    /\ __dict__ = <<>>
    /\ aliased = FALSE
    /\ now = 0
    /\ inflight = {}
    /\ \E cookies \in CookieLists : \E new_cookies \in CookieLists :
          last = MergeCall(cookies, new_cookies)

\* merged_cookies = merge_cookies(cookies, new_cookies), as the tests call it
test_cookies_merge ==
    /\ last.op = "merge_cookies"
    /\ last.kind = "call"
    /\ last' = [last EXCEPT
                   !.kind = "return",
                   !.value = merge_cookies(last.sent.form["cookies"],
                                           last.sent.form["new_cookies"])]
    /\ UNCHANGED <<_cfg, _token_headers, _api_headers, _auth_data, __expires_in,
                   __dict__, aliased, now, inflight>>

NextMerge == test_cookies_merge

SpecMerge == InitMerge /\ [][NextMerge]_vars

NextCookies ==
    \/ set_cookies
    \/ get_cookies

SpecCookies == Init /\ [][NextCookies]_vars

(***************************************************************************)
(* Properties                                                              *)
(***************************************************************************)
Ops == TokenOps \cup ApiOps

\* the last operation got a complete HTTP response with this status
Answered(status) ==
    last.op \in Ops /\ last.nreq = 1 /\ last.resp.fail = "none" /\ last.resp.status = status

\* this step ends an operation whose request had been answered or had failed
Completes == inflight # {} /\ inflight' = {} /\ last'.nreq = 1

SessionUnchanged == UNCHANGED <<_auth_data, _api_headers, __expires_in>>

\* C1: every operation whose response has status 401 fails with AuthError,
\* whatever the body is (not JSON, an object without error_description, a
\* JSON value that is not an object).
C1_Unauthorized == Answered(HTTP_UNAUTHORIZED) => last.kind = "AuthError"

\* C2: whenever no auth data is held, refresh_token fails with ConfigError,
\* sends no HTTP request and leaves the session state as it was.
C2_RefreshNeedsAuthData ==
    [][ (_auth_data = None /\ (last'.op = "refresh_token" \/ \E call \in inflight' : call.op = "refresh_token"))
        => (/\ last'.op = "refresh_token"
            /\ last'.kind = "ConfigError"
            /\ last'.nreq = 0
            /\ inflight' = {}
            /\ SessionUnchanged) ]_vars

C2_Witness == last.op = "refresh_token" /\ last.kind = "ConfigError" /\ _auth_data = None

\* C3: the step in which login or refresh_token returns replaces the session by
\* the new grant: the held AuthResponse is the allowlisted part of the body,
\* the AUTHORIZATION header is the token type lower-cased then capitalized, a
\* space and the access token, the expiry is the clock plus expires_in, and the
\* returned value equals the held AuthResponse.
C3_GrantReplacesSession ==
    [][ (Completes /\ last'.op \in TokenOps /\ last'.kind = "return")
        => LET body == last'.resp.body.v
           IN  /\ DOMAIN _auth_data' = DOMAIN body \cap CookidooAuthResponse
               /\ \A k \in DOMAIN _auth_data' : _auth_data'[k] = body[k]
               /\ DOMAIN _api_headers' = DOMAIN _api_headers \cup {"AUTHORIZATION"}
               /\ \A h \in DOMAIN _api_headers \ {"AUTHORIZATION"} : _api_headers'[h] = _api_headers[h]
               /\ _api_headers'["AUTHORIZATION"] =
                     capitalize(lower(body["token_type"].v)) \o <<32>> \o body["access_token"].v
               /\ __expires_in' = [set |-> TRUE, at |-> now + int(body["expires_in"]).v]
               /\ last'.value = _auth_data' ]_vars

\* a grant has been installed whose body had an unknown key and a token type
\* that capitalize changes
C3_Witness ==
    /\ last.op = "refresh_token" /\ last.kind = "return"
    /\ DOMAIN last.resp.body.v # DOMAIN _auth_data
    /\ last.resp.body.v["token_type"].v = s_MAC
    /\ _api_headers["AUTHORIZATION"] = <<77, 97, 99, 32, 65, 85>>

\* C4: status 400 makes login and refresh_token fail with AuthError and every
\* domain operation fail with RequestError.
C4_BadRequest ==
    Answered(HTTP_BAD_REQUEST) =>
        last.kind = (IF last.op \in TokenOps THEN "AuthError" ELSE "RequestError")

\* C4, for the responses whose body the debug line can read as text
C4_BadRequestReadable ==
    (Answered(HTTP_BAD_REQUEST) /\ last.resp.decodable) =>
        last.kind = (IF last.op \in TokenOps THEN "AuthError" ELSE "RequestError")

\* C5: every status outside 200..299 other than 401 (and 400 on the token
\* endpoint) makes the operation fail with RequestError, and an operation
\* returns only if the status was 2xx.
C5_NonSuccessStatus ==
    /\ \A status \in {100, 101, 304, 400, 404, 500} :
          (Answered(status) /\ ~(status = HTTP_BAD_REQUEST /\ last.op \in TokenOps))
             => last.kind = "RequestError"
    /\ (last.op \in Ops /\ last.kind = "return") => last.resp.status \in 200..299

\* C6: no debug record of a login or refresh_token that returned carries the
\* body of the token response.
C6_GrantBodyNotLogged ==
    (last.op \in TokenOps /\ last.kind = "return")
       => \A i \in 1..Len(last.log) : last.log[i].text # last.resp.body

\* the object a projecting operation maps into a record, when the 2xx body has one
Upstream ==
    LET body == last.resp.body
    IN  CASE last.op \in TokenOps -> body
          [] last.op = "get_user_info" ->
                IF body.t = "obj" /\ "userInfo" \in DOMAIN body.v THEN body.v["userInfo"] ELSE JNull
          [] last.op = "get_active_subscription" ->
                IF body.t = "arr" /\ FirstActive(body).ok /\ FirstActive(body).v # None
                THEN FirstActive(body).v ELSE JNull
          [] OTHER -> JNull

Declared ==
    CASE last.op \in TokenOps -> CookidooAuthResponse
      [] last.op = "get_user_info" -> CookidooUserInfo
      [] OTHER -> CookidooSubscription

\* C7: the record returned by login, refresh_token, get_user_info and
\* get_active_subscription has every declared key of the upstream object,
\* unchanged, and no other key; an upstream object that lacks a declared field
\* makes the call fail with ParseError.
C7_AllowlistProjection ==
    (/\ last.op \in TokenOps \cup {"get_user_info", "get_active_subscription"}
     /\ last.nreq = 1 /\ last.resp.fail = "none" /\ last.resp.status \in 200..299
     /\ last.resp.json_ctype /\ last.resp.decodable
     /\ Upstream.t = "obj")
    => /\ last.kind = "return" =>
             /\ DOMAIN last.value = DOMAIN Upstream.v \cap Declared
             /\ \A k \in DOMAIN last.value : last.value[k] = Upstream.v[k]
       /\ ~(Declared \subseteq DOMAIN Upstream.v) => last.kind = "ParseError"

\* C8: a 2xx answer to login or refresh_token whose body is not JSON, is not a
\* JSON object or lacks one of the four fields fails with ParseError.
C8_GrantParseError ==
    (/\ last.op \in TokenOps /\ last.nreq = 1 /\ last.resp.fail = "none"
     /\ last.resp.status \in 200..299
     /\ \/ last.resp.body.t # "obj"
        \/ ~(CookidooAuthResponse \subseteq DOMAIN last.resp.body.v))
    => last.kind = "ParseError"

\* C9: when the transport raises a timeout or a connection error, while sending
\* or while reading the response, the operation fails with RequestError and
\* the session state stays as it was.
C9_TransportFailure ==
    [][ (Completes /\ last'.op \in Ops /\ last'.resp.fail # "none")
        => (last'.kind = "RequestError" /\ SessionUnchanged) ]_vars

\* a held session survived a login whose response body could not be read
C9_Witness ==
    /\ last.op = "login" /\ last.resp.fail = "timeout_read" /\ last.resp.status = 200
    /\ last.kind = "RequestError"
    /\ _auth_data = GrantAU

\* C10: of several failure conditions the first in the order ConfigError,
\* AuthError, RequestError, ParseError is reported: a 401 with an invalid body
\* is AuthError, another non-2xx status with an invalid body is RequestError
\* (AuthError for 400 on the token endpoint), ParseError needs a 2xx status,
\* and ConfigError is raised before any request.
C10_ErrorPriority ==
    /\ (last.op \in Ops /\ last.kind = "ConfigError") => last.nreq = 0
    /\ (last.op \in Ops /\ last.nreq = 1 /\ last.resp.fail = "none" /\ last.resp.body.t = "invalid")
         => /\ last.resp.status = HTTP_UNAUTHORIZED => last.kind = "AuthError"
            /\ (last.resp.status \notin 200..299 /\ last.resp.status # HTTP_UNAUTHORIZED)
                  => last.kind = (IF last.resp.status = HTTP_BAD_REQUEST /\ last.op \in TokenOps
                                  THEN "AuthError" ELSE "RequestError")
    /\ (last.op \in Ops /\ last.kind = "ParseError") => last.resp.status \in 200..299

\* C11: an invocation of an operation issues at most one HTTP request: the step
\* that dispatches a request starts from no request in flight and puts exactly
\* one in flight, and the step that ends an operation, whatever its outcome,
\* dispatches nothing (no retry, no refresh) and has counted at most one request.
C11_AtMostOneRequest ==
    [][ /\ (inflight' \ inflight # {})
            => (inflight = {} /\ Cardinality(inflight') = 1 /\ last' = NoResult)
        /\ (last'.op \in Ops \cup {"auth_data", "expires_in"} /\ now' = now)
            => (inflight' = {} /\ last'.nreq \in {0, 1}
                /\ (last'.nreq = 1 <=> inflight # {})) ]_vars

\* a domain operation answered 401 has ended and nothing is in flight
C11_Witness ==
    /\ last.op = "get_additional_items" /\ last.nreq = 1
    /\ last.resp.status = HTTP_UNAUTHORIZED /\ last.kind = "AuthError"
    /\ _auth_data # None /\ inflight = {}

\* this step installs a grant: login or refresh_token returns, or the caller
\* assigns auth_data
InstallsGrant ==
    /\ now' = now
    /\ last'.op \in TokenOps \cup {"auth_data"}
    /\ last'.kind = "return"

\* C12: right after a login or refresh_token that returned at clock t0 with
\* server value expires_in = E >= 0, expires_in reads E; as long as no new
\* grant is installed the absolute expiry stays, so that a later read gives
\* max(0, E - (t - t0)): each step that installs no grant takes the elapsed
\* time off the value, down to 0, and the value read is never negative
\* (also for a negative E, which reads 0).
C12_RemainingValidity ==
    [][ /\ (Completes /\ last'.op \in TokenOps /\ last'.kind = "return")
            => LET E == int(last'.resp.body.v["expires_in"]).v
               IN  /\ expires_in_getter(Session', now').ok
                   /\ expires_in_getter(Session', now').v = Max(0, E)
                   /\ __expires_in'.at - now' = E
        /\ (~InstallsGrant /\ __expires_in.set)
            => /\ __expires_in' = __expires_in
               /\ expires_in_getter(Session', now').v =
                     Max(0, expires_in_getter(Session, now).v - (now' - now))
               /\ expires_in_getter(Session', now').v <= expires_in_getter(Session, now).v
        /\ (last'.op = "expires_in" /\ last'.kind = "return" /\ now' = now)
            => (last'.value = expires_in_getter(Session', now').v /\ last'.value >= 0) ]_vars

\* a grant of one second made at clock 1 has been read after it ran out
C12_Witness ==
    /\ last.op = "expires_in" /\ last.kind = "return" /\ last.value = 0
    /\ _auth_data = GrantAU /\ __expires_in = [set |-> TRUE, at |-> 2] /\ now = MaxTime

\* this step dispatches the request of a domain operation
Dispatches == \E call \in inflight' \ inflight : call.op \in ApiOps

\* the AUTHORIZATION header derived from the grant in a token response body
HeaderOf(body) ==
    capitalize(lower(body.v["token_type"].v)) \o <<32>> \o str(body.v["access_token"])

\* C13: a domain call carries the headers held when it is dispatched; the
\* AUTHORIZATION header held is set by the step in which login or
\* refresh_token returns, to the one derived from that grant, and a login or
\* refresh_token that fails leaves it as it was, so that every later call
\* carries the header of the most recent successful grant.
C13_HeaderOfLastGrant ==
    [][ /\ Dispatches => \A call \in inflight' \ inflight : call.headers = _api_headers
        /\ (Completes /\ last'.op \in TokenOps /\ last'.kind = "return")
            => _api_headers'["AUTHORIZATION"] = HeaderOf(last'.resp.body)
        /\ (Completes /\ last'.op \in TokenOps /\ last'.kind # "return"
              /\ "AUTHORIZATION" \in DOMAIN _api_headers)
            => _api_headers' = _api_headers ]_vars

\* C13, without the part about grants that fail
C13_HeaderOfReturnedGrant ==
    [][ /\ Dispatches => \A call \in inflight' \ inflight : call.headers = _api_headers
        /\ (Completes /\ last'.op \in TokenOps /\ last'.kind = "return")
            => _api_headers'["AUTHORIZATION"] = HeaderOf(last'.resp.body) ]_vars

\* C14: with calls overlapping, a domain call is dispatched with the headers
\* held at that moment and keeps them while it is in flight, whatever login
\* or refresh_token does meanwhile, until it is answered as the call that was
\* dispatched; the step in which a grant returns sets the header that the
\* calls dispatched from then on carry.
C14_HeaderAtDispatch ==
    [][ /\ \A call \in inflight' \ inflight :
              /\ call.op \in ApiOps => call.headers = _api_headers
              /\ inflight' = inflight \cup {call}
        /\ \A call \in inflight :
              \/ call \in inflight'
              \/ (inflight' = inflight \ {call} /\ last'.nreq = 1 /\ last'.sent = call)
        /\ (inflight' # inflight /\ inflight' \subseteq inflight
              /\ last'.op \in TokenOps /\ last'.kind = "return")
            => _api_headers'["AUTHORIZATION"] = HeaderOf(last'.resp.body) ]_vars

\* get_user_info, dispatched under the grant AT, was answered after a refresh
\* had installed the grant AU, and get_additional_items, dispatched after that
\* refresh, is in flight
C14_Witness ==
    /\ last.op = "get_user_info" /\ last.kind = "return"
    /\ last.sent.headers = With(DEFAULT_API_HEADERS, "AUTHORIZATION",
                                <<66, 101, 97, 114, 101, 114, 32, 65, 84>>)
    /\ _api_headers = With(DEFAULT_API_HEADERS, "AUTHORIZATION", <<77, 97, 99, 32, 65, 85>>)
    /\ \E call \in inflight :
          call.op = "get_additional_items" /\ call.headers = _api_headers

\* the last operation, one of ops, got a complete 2xx response whose body
\* reads as text and as JSON
Mapped(ops) ==
    /\ last.op \in ops /\ last.nreq = 1 /\ last.resp.fail = "none"
    /\ last.resp.status \in 200..299
    /\ last.resp.json_ctype /\ last.resp.decodable

\* the element is an object whose active field is true
ActiveTrue(e) ==
    /\ e.t = "obj" /\ "active" \in DOMAIN e.v
    /\ e.v["active"].t = "bool" /\ e.v["active"].v

\* C15: get_active_subscription on a 2xx array body returns the projection of
\* the first element whose active field is true, and returns None when no
\* element has active true (the empty array and elements without an active
\* field included).
C15_FirstActiveSubscription ==
    (Mapped({"get_active_subscription"}) /\ last.resp.body.t = "arr")
    => LET elems == last.resp.body.v
           active == {i \in 1..Len(elems) : ActiveTrue(elems[i])}
       IN  /\ last.kind = "return"
           /\ IF active = {} THEN last.value = None
              ELSE /\ last.value # None
                   /\ DOMAIN last.value = DOMAIN elems[Min(active)].v \cap CookidooSubscription
                   /\ \A k \in DOMAIN last.value : last.value[k] = elems[Min(active)].v[k]

\* C15, for arrays of objects that all carry an active field
C15_FirstActiveOfComplete ==
    (/\ Mapped({"get_active_subscription"}) /\ last.resp.body.t = "arr"
     /\ \A i \in 1..Len(last.resp.body.v) :
           last.resp.body.v[i].t = "obj" /\ "active" \in DOMAIN last.resp.body.v[i].v)
    => LET elems == last.resp.body.v
           active == {i \in 1..Len(elems) : ActiveTrue(elems[i])}
       IN  /\ last.kind = "return"
           /\ IF active = {} THEN last.value = None
              ELSE /\ last.value # None
                   /\ DOMAIN last.value = DOMAIN elems[Min(active)].v \cap CookidooSubscription
                   /\ \A k \in DOMAIN last.value : last.value[k] = elems[Min(active)].v[k]

\* body[key] is an array of objects that each have an array of objects under
\* recipeIngredientGroups
Grouped(body, key) ==
    /\ body.t = "obj" /\ key \in DOMAIN body.v /\ body.v[key].t = "arr"
    /\ \A i \in 1..Len(body.v[key].v) :
          LET outer == body.v[key].v[i]
          IN  /\ outer.t = "obj" /\ "recipeIngredientGroups" \in DOMAIN outer.v
              /\ outer.v["recipeIngredientGroups"].t = "arr"
              /\ \A j \in 1..Len(outer.v["recipeIngredientGroups"].v) :
                    outer.v["recipeIngredientGroups"].v[j].t = "obj"

\* the indices (i, j) of body[key][i].recipeIngredientGroups[j]
GroupIndices(body, key) ==
    UNION { { <<i, j>> : j \in 1..Len(body.v[key].v[i].v["recipeIngredientGroups"].v) } :
              i \in 1..Len(body.v[key].v) }

\* the place of (i, j) in the order outer index first, inner index second
PlaceOf(p, indices) ==
    1 + Cardinality({ q \in indices : q[1] < p[1] \/ (q[1] = p[1] /\ q[2] < p[2]) })

\* the item object has the fields an item record is made of
ItemFields(e) == e.t = "obj" /\ {"id", "name", "isOwned"} \subseteq DOMAIN e.v

\* the record is the item made of the object
ItemOf(record, e) ==
    /\ record["id"] = e.v["id"] /\ record["name"] = e.v["name"]
    /\ record["is_owned"] = e.v["isOwned"]

\* the list returned by the last operation is the two-level flatten of
\* body[key][i].recipeIngredientGroups[j]
Flattened(key) ==
    LET body == last.resp.body
        indices == GroupIndices(body, key)
    IN  /\ last.kind \in {"return", "ParseError"}
        /\ last.kind = "return" <=>
              \A p \in indices : ItemFields(body.v[key].v[p[1]].v["recipeIngredientGroups"].v[p[2]])
        /\ last.kind = "return" =>
              /\ Len(last.value) = Cardinality(indices)
              /\ \A p \in indices :
                    ItemOf(last.value[PlaceOf(p, indices)],
                           body.v[key].v[p[1]].v["recipeIngredientGroups"].v[p[2]])

\* C16: get_ingredient_items on a 2xx body returns one IngredientItem per
\* element of recipes[i].recipeIngredientGroups[j]: as many as the groups
\* have elements together, in the order of the recipes and, within a recipe,
\* of its groups.
C16_IngredientItemsFlatten ==
    (Mapped({"get_ingredient_items"}) /\ Grouped(last.resp.body, "recipes")) => Flattened("recipes")

\* two recipes with two and one ingredient groups gave three items, the last
\* one from the second recipe
C16_Witness ==
    /\ last.op = "get_ingredient_items" /\ last.kind = "return"
    /\ Len(last.resp.body.v["recipes"].v) = 2
    /\ Len(last.value) = 3
    /\ last.value[1]["id"] = JStr(s_AT) /\ last.value[2]["id"] = JStr(s_AU)
    /\ last.value[3]["id"] = JStr(s_RT)

\* body[key] is an array of objects
Listing(body, key) ==
    /\ body.t = "obj" /\ key \in DOMAIN body.v /\ body.v[key].t = "arr"
    /\ \A i \in 1..Len(body.v[key].v) : body.v[key].v[i].t = "obj"

\* the list returned by the last operation has one item per element of
\* body[key], in the order of the array
Listed(key) ==
    LET elems == last.resp.body.v[key].v
    IN  /\ last.kind \in {"return", "ParseError"}
        /\ last.kind = "return" <=> \A i \in 1..Len(elems) : ItemFields(elems[i])
        /\ last.kind = "return" =>
              /\ Len(last.value) = Len(elems)
              /\ \A i \in 1..Len(elems) : ItemOf(last.value[i], elems[i])

\* C17: add_ingredient_items_for_recipes and edit_ingredient_items_ownership
\* both build their result from a 2xx body by the two-level flatten of
\* data[i].recipeIngredientGroups[j], one IngredientItem per inner element in
\* nesting order.
C17_SameFlatten ==
    (/\ Mapped({"add_ingredient_items_for_recipes", "edit_ingredient_items_ownership"})
     /\ Grouped(last.resp.body, "data"))
    => Flattened("data")

\* C17, as the operations are: add_ingredient_items_for_recipes returns the
\* two-level flatten of data[i].recipeIngredientGroups[j], and
\* edit_ingredient_items_ownership returns one IngredientItem per element of
\* data, in the order of data, and looks at no second level.
C17_AddFlattensEditLists ==
    /\ (Mapped({"add_ingredient_items_for_recipes"}) /\ Grouped(last.resp.body, "data"))
          => Flattened("data")
    /\ (Mapped({"edit_ingredient_items_ownership"}) /\ Listing(last.resp.body, "data"))
          => Listed("data")

\* edit_ingredient_items_ownership returned the two items of data
C17_Witness ==
    /\ last.op = "edit_ingredient_items_ownership" /\ last.kind = "return"
    /\ Len(last.resp.body.v["data"].v) = 2
    /\ Len(last.value) = 2
    /\ last.value[1]["id"] = JStr(s_AT) /\ last.value[2]["id"] = JStr(s_AU)

\* C18: get_additional_items returns one AdditionalItem per element of the
\* body's additionalItems array, and add_additional_items,
\* edit_additional_items and edit_additional_items_ownership one per element
\* of the body's data array: as many as the array has elements, in its order.
C18_AdditionalItemsListed ==
    /\ (Mapped({"get_additional_items"}) /\ Listing(last.resp.body, "additionalItems"))
          => Listed("additionalItems")
    /\ (/\ Mapped({"add_additional_items", "edit_additional_items",
                   "edit_additional_items_ownership"})
        /\ Listing(last.resp.body, "data"))
          => Listed("data")

\* get_additional_items returned the two items of additionalItems in order
C18_Witness ==
    /\ last.op = "get_additional_items" /\ last.kind = "return"
    /\ Len(last.resp.body.v["additionalItems"].v) = 2
    /\ Len(last.value) = 2
    /\ last.value[1] = [id |-> JStr(s_AT), name |-> JStr(s_x), is_owned |-> JBool(FALSE)]
    /\ last.value[2] = [id |-> JStr(s_AU), name |-> JStr(s_x), is_owned |-> JBool(TRUE)]

\* C19: remove_ingredient_items_for_recipes, remove_additional_items and
\* clear_shopping_list return no value on every 2xx response, whatever its
\* body is, and never fail with ParseError.
C19_NoBodyOperations ==
    /\ (/\ last.op \in NoBodyOps /\ last.nreq = 1 /\ last.resp.fail = "none"
        /\ last.resp.status \in 200..299)
          => (last.kind = "return" /\ last.value = None)
    /\ last.op \in NoBodyOps => last.kind # "ParseError"

\* C19, for the responses whose body the debug line can read as text
C19_NoBodyOperationsReadable ==
    /\ (/\ last.op \in NoBodyOps /\ last.nreq = 1 /\ last.resp.fail = "none"
        /\ last.resp.status \in 200..299 /\ last.resp.decodable)
          => (last.kind = "return" /\ last.value = None)
    /\ last.op \in NoBodyOps => last.kind # "ParseError"

\* C20: the debug records of a call do not change its outcome: where the
\* status decides the outcome (401, the other statuses from 400 on, a 2xx
\* answer to an operation that returns no value), the outcome is the one of
\* that status whatever the body is, also when the body cannot be read as
\* text or the error description cannot be taken from it for the log.
C20_LoggingKeepsOutcome ==
    (last.op \in Ops /\ last.nreq = 1 /\ last.resp.fail = "none")
    => /\ last.resp.status = HTTP_UNAUTHORIZED => last.kind = "AuthError"
       /\ (last.resp.status >= 400 /\ last.resp.status # HTTP_UNAUTHORIZED)
            => last.kind = (IF last.resp.status = HTTP_BAD_REQUEST /\ last.op \in TokenOps
                            THEN "AuthError" ELSE "RequestError")
       /\ (last.op \in NoBodyOps /\ last.resp.status \in 200..299) => last.kind = "return"

\* C20, with 401 left out and for the bodies that read as text
C20_StatusDecidesReadable ==
    (last.op \in Ops /\ last.nreq = 1 /\ last.resp.fail = "none" /\ last.resp.decodable)
    => /\ (last.resp.status >= 400 /\ last.resp.status # HTTP_UNAUTHORIZED)
            => last.kind = (IF last.resp.status = HTTP_BAD_REQUEST /\ last.op \in TokenOps
                            THEN "AuthError" ELSE "RequestError")
       /\ (last.op \in NoBodyOps /\ last.resp.status \in 200..299) => last.kind = "return"

\* C21: after a login or refresh_token that returned, the held AuthResponse
\* has a non-empty access_token and a non-negative expires_in.
C21_HeldGrantWellFormed ==
    (last.op \in TokenOps /\ last.kind = "return")
    => /\ _auth_data # None
       /\ "access_token" \in DOMAIN _auth_data
       /\ _auth_data["access_token"].t = "str" /\ Len(_auth_data["access_token"].v) > 0
       /\ "expires_in" \in DOMAIN _auth_data
       /\ int(_auth_data["expires_in"]).ok /\ int(_auth_data["expires_in"]).v >= 0

\* C21, for the grants in which the server sent a non-empty access token and
\* a non-negative expires_in
C21_HeldGrantAsSent ==
    (/\ last.op \in TokenOps /\ last.kind = "return"
     /\ Len(last.resp.body.v["access_token"].v) > 0
     /\ int(last.resp.body.v["expires_in"]).v >= 0)
    => /\ _auth_data # None
       /\ _auth_data["access_token"] = last.resp.body.v["access_token"]
       /\ _auth_data["expires_in"] = last.resp.body.v["expires_in"]

\* C22: a login or refresh_token that fails leaves the held AuthResponse, the
\* authorization header and the absolute expiry as they were before the call:
\* only a grant that returns supersedes them.
C22_FailedGrantKeepsSession ==
    [][ (Completes /\ last'.op \in TokenOps /\ last'.kind # "return")
        => SessionUnchanged ]_vars

\* C22, for the grants that fail with AuthError, RequestError or ParseError
C22_TypedFailureKeepsSession ==
    [][ (Completes /\ last'.op \in TokenOps
         /\ last'.kind \in {"AuthError", "RequestError", "ParseError"})
        => SessionUnchanged ]_vars

\* this step dispatches the request of refresh_token
DispatchesRefresh == \E call \in inflight' \ inflight : call.op = "refresh_token"

\* C23: refresh_token sends the refresh_token of the AuthResponse held when it
\* is called; a refresh that returns with a new refresh_token makes that the
\* held one, and a refresh that fails leaves the held one as it was, so that
\* the next refresh sends the same one again.
C23_RefreshSendsHeldToken ==
    [][ /\ DispatchesRefresh
            => \A call \in inflight' \ inflight :
                  call.form["refresh_token"] = _auth_data["refresh_token"]
        /\ (/\ Completes /\ last'.op = "refresh_token" /\ last'.kind = "return"
            /\ "refresh_token" \in DOMAIN last'.resp.body.v)
            => _auth_data'["refresh_token"] = last'.resp.body.v["refresh_token"]
        /\ (Completes /\ last'.op = "refresh_token" /\ last'.kind # "return")
            => /\ _auth_data' # None /\ "refresh_token" \in DOMAIN _auth_data'
               /\ _auth_data'["refresh_token"] = _auth_data["refresh_token"] ]_vars

\* C23, without the part about refreshes that fail
C23_RefreshSendsHeldTokenOfReturned ==
    [][ /\ DispatchesRefresh
            => \A call \in inflight' \ inflight :
                  call.form["refresh_token"] = _auth_data["refresh_token"]
        /\ (/\ Completes /\ last'.op = "refresh_token" /\ last'.kind = "return"
            /\ "refresh_token" \in DOMAIN last'.resp.body.v)
            => _auth_data'["refresh_token"] = last'.resp.body.v["refresh_token"] ]_vars

\* C24: cookidoo.cookies reads as a string, also on an instance to which
\* nothing has been assigned yet, and after a string has been assigned to it
\* it reads as that string.
C24_CookiesAttribute ==
    last.op = "cookies"
    => /\ last.kind = "return"
       /\ last.value \in CookieStrings
       /\ "cookies" \in DOMAIN __dict__ => last.value = __dict__["cookies"]

\* C24, for the reads that follow an assignment
C24_CookiesReadBack ==
    (last.op = "cookies" /\ "cookies" \in DOMAIN __dict__)
    => (last.kind = "return" /\ last.value = __dict__["cookies"])

OneGrant ==
    \/ /\ _auth_data = None
       /\ "AUTHORIZATION" \notin DOMAIN _api_headers
       /\ ~__expires_in.set
    \/ /\ _auth_data # None
       /\ {"token_type", "access_token", "expires_in"} \subseteq DOMAIN _auth_data
       /\ "AUTHORIZATION" \in DOMAIN _api_headers
       /\ _api_headers["AUTHORIZATION"] = HeaderOf(JObj(_auth_data))
       /\ __expires_in.set
       /\ int(_auth_data["expires_in"]).ok
       /\ \E t \in 0..now : __expires_in.at = t + int(_auth_data["expires_in"]).v

\* C26: in every reachable state the header, the held AuthResponse and the
\* absolute expiry derive from one and the same grant, or no auth data is
\* held and no header is set; no call, returning or failing, leaves the
\* header or the held AuthResponse newer than the expiry.
C26_OneGrant == OneGrant

\* What holds of the code: a step that ends in a return or in one of the four
\* declared failures leaves the three parts those of one grant when they were
\* before.
C26_OneGrantKeptByDeclaredOutcomes ==
    [][ (OneGrant /\ last'.kind \in {"none", "return", "ConfigError", "AuthError",
                                       "RequestError", "ParseError"})
        => OneGrant' ]_vars

\* C27: no public operation ends with a failure outside ConfigError,
\* AuthError, RequestError and ParseError: for every status and every shape
\* of the response body the call returns a value or raises one of the four.
C27_FourKindsOnly ==
    last.op \in Ops
    => last.kind \in {"return", "ConfigError", "AuthError", "RequestError", "ParseError"}

\* What holds of the code: the failures outside the four kinds are the
\* exceptions of the body handling that no except clause names.
C27_EscapingKinds ==
    last.op \in Ops
    => last.kind \in {"return", "ConfigError", "AuthError", "RequestError", "ParseError",
                      "KeyError", "TypeError", "AttributeError", "ValueError",
                      "UnicodeDecodeError"}

\* C28: reading expires_in yields a non-negative integer in every reachable
\* state of the client, the initial state before any login, refresh or
\* auth_data assignment included.
C28_ExpiresInReadable ==
    last.op = "expires_in" => (last.kind = "return" /\ last.value \in Nat)

\* What holds of the code: once an expiry has been set the read returns a
\* non-negative integer, and before that it raises AttributeError.
C28_ExpiresInOnceSet ==
    last.op = "expires_in"
    => IF __expires_in.set
       THEN last.kind = "return" /\ last.value \in Nat
       ELSE last.kind = "AttributeError"

\* the operations that unwrap a key of the body, by that key
Unwrapping(key) ==
    CASE key = "userInfo" -> {"get_user_info"}
      [] key = "recipes" -> {"get_shopping_list_recipes", "get_ingredient_items"}
      [] key = "additionalItems" -> {"get_additional_items"}
      [] key = "data" -> {"add_ingredient_items_for_recipes", "edit_ingredient_items_ownership",
                          "add_additional_items", "edit_additional_items",
                          "edit_additional_items_ownership"}

WrapperKeys == {"userInfo", "recipes", "additionalItems", "data"}

\* body[key] is a list of objects one of which has no recipeIngredientGroups
LacksGroups(body, key) ==
    /\ Listing(body, key)
    /\ \E i \in 1..Len(body.v[key].v) :
          "recipeIngredientGroups" \notin DOMAIN body.v[key].v[i].v
    /\ \A i \in 1..Len(body.v[key].v) :
          "recipeIngredientGroups" \in DOMAIN body.v[key].v[i].v
             => /\ body.v[key].v[i].v["recipeIngredientGroups"].t = "arr"
                /\ \A j \in 1..Len(body.v[key].v[i].v["recipeIngredientGroups"].v) :
                      body.v[key].v[i].v["recipeIngredientGroups"].v[j].t = "obj"

\* C29: a 2xx response whose JSON object lacks the wrapper key of the mapping
\* asked for (userInfo, recipes, additionalItems, data, and
\* recipeIngredientGroups inside a recipe) makes the call fail with
\* ParseError; a wrapper key that holds the empty array gives the empty list.
C29_MissingWrapperKey ==
    LET body == last.resp.body
    IN  /\ \A key \in WrapperKeys :
              (Mapped(Unwrapping(key)) /\ body.t = "obj" /\ key \notin DOMAIN body.v)
              => last.kind = "ParseError"
        /\ (\/ (Mapped({"get_ingredient_items"}) /\ LacksGroups(body, "recipes"))
            \/ (Mapped({"add_ingredient_items_for_recipes"}) /\ LacksGroups(body, "data")))
            => last.kind = "ParseError"
        /\ \A key \in WrapperKeys \ {"userInfo"} :
              (/\ Mapped(Unwrapping(key)) /\ body.t = "obj"
               /\ key \in DOMAIN body.v /\ body.v[key] = JArr(<<>>))
              => (last.kind = "return" /\ last.value = <<>>)

\* a body without userInfo failed get_user_info
C29_Witness ==
    /\ Mapped({"get_user_info"})
    /\ last.resp.body = JObj([recipes |-> JArr(<<>>)])
    /\ last.kind = "ParseError"

\* a recipe without recipeIngredientGroups failed get_ingredient_items
C29_WitnessGroups ==
    /\ Mapped({"get_ingredient_items"})
    /\ last.resp.body = JObj([recipes |-> JArr(<<RecipeNoGroups>>)])
    /\ last.kind = "ParseError"

\* an empty data array gave edit_additional_items the empty list
C29_WitnessEmpty ==
    /\ Mapped({"edit_additional_items"})
    /\ last.resp.body = JObj([data |-> JArr(<<>>)])
    /\ last.kind = "return" /\ last.value = <<>>

\* C30: no domain operation changes the held AuthResponse, the authorization
\* header or the absolute expiry, however it ends, a 401 included.
C30_DomainOpsKeepSession ==
    [][ (Completes /\ last'.op \in ApiOps) => SessionUnchanged ]_vars

\* a domain operation was refused with 401 while a grant is held
C30_Witness ==
    /\ last.op \in ApiOps
    /\ Answered(HTTP_UNAUTHORIZED)
    /\ last.kind = "AuthError"
    /\ _auth_data = GrantAT
    /\ "AUTHORIZATION" \in DOMAIN _api_headers
    /\ __expires_in.set

\* this step ends a login or refresh_token that was in flight together with
\* another one: that one is still in flight, or it ended in the step before
OverlappingGrantEnds ==
    /\ inflight' # inflight /\ inflight' \subseteq inflight
    /\ last'.op \in TokenOps /\ last'.nreq = 1
    /\ \/ \E call \in inflight' : call.op \in TokenOps
       \/ last.op \in TokenOps /\ last.nreq = 1

\* C31: when login and refresh_token calls overlap, each one that returns
\* installs its grant whole, each one that fails leaves the session as the
\* other left it, and once all have ended the header, the held AuthResponse
\* and the expiry are those of one grant.
C31_OverlappingGrants ==
    [][ OverlappingGrantEnds
        => /\ last'.kind = "return"
                => /\ _auth_data' = Restrict(last'.resp.body.v, CookidooAuthResponse)
                   /\ _api_headers'["AUTHORIZATION"] = HeaderOf(last'.resp.body)
                   /\ __expires_in' = [set |-> TRUE,
                                        at |-> now + int(last'.resp.body.v["expires_in"]).v]
           /\ last'.kind # "return" => SessionUnchanged
           /\ inflight' = {} => OneGrant' ]_vars

\* What holds of the code: the same, for the calls that return or fail with
\* one of the declared kinds.
C31_OverlappingDeclaredOutcomes ==
    [][ (OverlappingGrantEnds /\ last'.kind \in {"return", "AuthError", "RequestError", "ParseError"})
        => /\ last'.kind = "return"
                => /\ _auth_data' = Restrict(last'.resp.body.v, CookidooAuthResponse)
                   /\ _api_headers'["AUTHORIZATION"] = HeaderOf(last'.resp.body)
                   /\ __expires_in' = [set |-> TRUE,
                                        at |-> now + int(last'.resp.body.v["expires_in"]).v]
           /\ last'.kind # "return" => SessionUnchanged
           /\ (inflight' = {} /\ OneGrant) => OneGrant' ]_vars

\* C32: the held AuthResponse is never a dict the caller holds: changing the
\* dict returned by login, refresh_token or the auth_data getter, or a dict
\* after it was assigned to auth_data, leaves the held AuthResponse, and so
\* the refresh_token a later refresh sends, as it was.
C32_NoAliasing ==
    [][ (last'.op \in {"mutate_returned", "mutate_assigned"} /\ last' # last)
        => _auth_data' = _auth_data ]_vars

\* What holds of the code: the dicts that login, refresh_token and the getter
\* return are copies, and changing one leaves the held AuthResponse alone.
C32_ReturnedIsCopy ==
    [][ (last'.op = "mutate_returned" /\ last' # last) => _auth_data' = _auth_data ]_vars

\* the AuthResponse that the step installs: the one assigned to auth_data, or
\* the one login or refresh_token returns
Installed ==
    IF last'.op \in TokenOps THEN last'.value ELSE _auth_data'

Fresh ==
    /\ _auth_data = None
    /\ "AUTHORIZATION" \notin DOMAIN _api_headers
    /\ ~__expires_in.set

\* C35: a domain operation needs no login: called on a client without grant
\* or auth data it sends its one request, without AUTHORIZATION header, and
\* it never fails with ConfigError, which only refresh_token raises.
C35_NoLoginPrecondition ==
    /\ last.op \in ApiOps => (last.nreq = 1 /\ last.kind # "ConfigError")
    /\ last.kind = "ConfigError" => last.op = "refresh_token"
    /\ (last.op \in ApiOps /\ Fresh) => "AUTHORIZATION" \notin DOMAIN last.sent.headers
    /\ \A call \in inflight :
          (call.op \in ApiOps /\ Fresh) => "AUTHORIZATION" \notin DOMAIN call.headers

\* get_user_info returned on a client that never had a grant
C35_Witness ==
    /\ Fresh
    /\ last.op = "get_user_info" /\ last.kind = "return" /\ last.nreq = 1
    /\ "AUTHORIZATION" \notin DOMAIN last.sent.headers

\* the session of a client that was just constructed
FreshSession ==
    [auth_data |-> None, api_headers |-> DEFAULT_API_HEADERS, expires |-> Unset,
     aliased |-> FALSE]

\* no token request in flight carries an AUTHORIZATION header
TokenRequestsBare ==
    \A call \in inflight : call.op \in TokenOps => "AUTHORIZATION" \notin DOMAIN call.headers

\* C36: requests to the token endpoint never carry the API authorization
\* header, and login does not depend on the session held: with the same
\* response it ends the same way and leaves the same session as on a client
\* that holds none.
C36_LoginIgnoresSession ==
    [][ /\ TokenRequestsBare'
        /\ (Completes /\ last'.op = "login")
            => LET fresh == _request_access_token(last'.resp, FreshSession, now)
               IN  /\ last'.kind = fresh.kind
                   /\ last'.value = fresh.value
                   /\ _auth_data' = fresh.S.auth_data
                   /\ _api_headers' = fresh.S.api_headers
                   /\ __expires_in' = fresh.S.expires ]_vars

\* C36, amended: requests to the token endpoint never carry the API
\* authorization header, and how login ends (the value returned or the kind
\* of failure) does not depend on the session held; a login that returns
\* leaves the same session as on a client that holds none.
C36_LoginResultIgnoresSession ==
    [][ /\ TokenRequestsBare'
        /\ (Completes /\ last'.op = "login")
            => LET fresh == _request_access_token(last'.resp, FreshSession, now)
               IN  /\ last'.kind = fresh.kind
                   /\ last'.value = fresh.value
                   /\ last'.kind = "return"
                        => /\ _auth_data' = fresh.S.auth_data
                           /\ _api_headers' = fresh.S.api_headers
                           /\ __expires_in' = fresh.S.expires ]_vars

\* a login is in flight without AUTHORIZATION header while the client holds
\* a grant and its header
C36_Witness ==
    /\ _auth_data = GrantAU
    /\ "AUTHORIZATION" \in DOMAIN _api_headers
    /\ \E call \in inflight :
          call.op = "login" /\ "AUTHORIZATION" \notin DOMAIN call.headers

\* a login returned on a client that held another grant before
C36_WitnessReturned ==
    /\ last.op = "login" /\ last.kind = "return"
    /\ last.resp.body = JObj(GrantAT)
    /\ _auth_data = GrantAT
    /\ now = 1 /\ __expires_in = [set |-> TRUE, at |-> 3]

\* C37: every call of a public operation ends, in a return or in an error,
\* when the transport answers or fails its request: no operation waits or
\* retries after the answer.
C37_CallsEnd ==
    /\ (inflight # {}) ~> (inflight = {} /\ last.nreq = 1 /\ last.kind # "none")
    /\ [][ Completes => (last'.sent \in inflight /\ last'.op = last'.sent.op) ]_vars

\* get_additional_items has ended in an error after its request was answered
\* with 401, and nothing is in flight
C37_Witness ==
    /\ inflight = {}
    /\ last.op = "get_additional_items" /\ last.nreq = 1
    /\ last.resp.status = HTTP_UNAUTHORIZED /\ last.kind = "AuthError"

\* C38: no operation changes the configuration, and the localization the
\* property returns is a copy: whatever the caller does to it, the
\* configuration stays as constructed and every request goes to the URL made
\* of it, a login with the email and password of it.
C38_ConfigReadOnly ==
    /\ _cfg = DEFAULT_COOKIDOO_CONFIG
    /\ last.op \in {"localization", "mutate_localization"} => last.value.ref = "copy"
    /\ \A call \in inflight :
          /\ call.op \in ApiOps => call.url = api_url(call.op, DEFAULT_COOKIDOO_CONFIG)
          /\ call.op = "login"
                => /\ call.form["username"] = DEFAULT_COOKIDOO_CONFIG["email"]
                   /\ call.form["password"] = DEFAULT_COOKIDOO_CONFIG["password"]

\* get_user_info has returned from the URL of the configured localization
C38_Witness ==
    /\ last.op = "get_user_info" /\ last.kind = "return"
    /\ last.sent.url = [template |-> "get_user_info",
                         localization |-> [country_code |-> "ch", language |-> "de-CH"]]
    /\ _cfg = DEFAULT_COOKIDOO_CONFIG

\* the caller holds a localization whose language it has changed
C38_WitnessMutated ==
    /\ last.op = "mutate_localization"
    /\ last.value.value["language"] = "fr-FR"
    /\ _cfg["localization"]["language"] = "de-CH"

====
